---- MODULE Spec2Model ----
(***************************************************************************)
(* Hooks of the padertorch training loop (padertorch/train/hooks.py):      *)
(* SummaryHook, ValidationHook, StopTrainingHook and BaseHook, driven      *)
(*   - by the training loop, which calls pre_step in descending priority,  *)
(*     runs a step, calls post_step, and closes the hooks at the end       *)
(*     (specification Spec), and                                           *)
(*   - by direct calls of a SummaryHook's and a StopTrainingHook's methods *)
(*     in any order, as a unit test does (specification FreeSpec),         *)
(*   - by direct calls of update_summary and reset_summary (HistSpec),     *)
(*   - by direct calls made by trainers of differing storage locations     *)
(*     (DirSpec),                                                          *)
(*   - their triggers being called themselves (TriggerSpec);               *)
(* and the functions pit_mse_loss and deep_clustering_loss                 *)
(* (padertorch/ops/losses/loss.py), compare_configs and                    *)
(* initialize_trainer_provider (contrib/examples/mask_estimator/train.py), *)
(* each called on its own (specification FunctionSpec).                    *)
(* The triggers (padertorch/train/trigger.py), the Timer and the Trainer   *)
(* are not part of the sources at hand; they follow the specification.     *)
(***************************************************************************)
EXTENDS Integers, Sequences, FiniteSets, TLC

\* ------------------------------------------------------------------ bounds

\* The loop runs at most this many training steps.
MaxIter == 3
\* A run of direct calls makes at most this many calls.
MaxCalls == 5
\* A run of update_summary calls makes at most this many calls.
MaxFeeds == 4
\* Triggers are called at the iterations 0 .. MaxTicks, their periods and
\* maxima being 1 .. MaxPeriod.
MaxTicks == 4
MaxPeriod == 3
\* The entries of the tensors handed to the loss functions are 0 .. MaxVal.
MaxVal == 1

\* ---------------------------------------------------------------- helpers

\* Python's None, and str() of a storage location.
PyNone == "<None>"
\* None where a (count, unit) pair may be given.
NoPair == <<>>
Str(x) == IF x = PyNone THEN "None" ELSE x

RECURSIVE SeqSum(_)
SeqSum(s) == IF s = <<>> THEN 0 ELSE s[1] + SeqSum(Tail(s))

RECURSIVE GCD(_, _)
GCD(a, b) == IF b = 0 THEN a ELSE GCD(b, a % b)

\* An exact quotient n/d (d > 0, n >= 0) in lowest terms.
Ratio(n, d) == LET g == GCD(n, d) IN [num |-> n \div g, den |-> d \div g]

\* np.mean of a non-empty list of numbers.
Mean(s) == Ratio(SeqSum(s), Len(s))

\* s[:n]
LastN_first(s, n) == IF Len(s) <= n THEN s ELSE SubSeq(s, 1, n)

\* s[-n:]
LastN(s, n) == IF Len(s) <= n THEN s ELSE SubSeq(s, Len(s) - n + 1, Len(s))

\* A dict in insertion order: a sequence of [k, v] items with distinct keys.
Has(d, key) == \E i \in 1..Len(d) : d[i].k = key
Get(d, key, default) ==
    IF Has(d, key) THEN d[CHOOSE i \in 1..Len(d) : d[i].k = key].v ELSE default
Put(d, key, val) ==
    IF Has(d, key)
    THEN [i \in 1..Len(d) |-> IF d[i].k = key THEN [k |-> key, v |-> val] ELSE d[i]]
    ELSE Append(d, [k |-> key, v |-> val])
Item(key, val) == [k |-> key, v |-> val]

\* ---------------------------------------------------------------- triggers

Interval(period, unit) ==
    [type |-> "Interval", period |-> period, unit |-> unit, last |-> -1,
     children |-> <<>>]
End(max, unit) ==
    [type |-> "End", period |-> max, unit |-> unit, last |-> -1,
     children |-> <<>>]
Or(a, b) ==
    [type |-> "Or", period |-> 0, unit |-> "", last |-> -1,
     children |-> <<a, b>>]

\* IntervalTrigger.new: a (count, unit) pair becomes a fresh trigger.
IntervalTrigger_new(pair) == Interval(pair[1], pair[2])
EndTrigger_new(pair) == End(pair[1], pair[2])

\* IntervalTrigger.__call__ answering for the epoch however often it is asked.
IntervalTrigger_call_every_call(t, iteration, epoch) ==
    IF t.unit = "iteration"
    THEN [fired |-> iteration % t.period = 0, self |-> t]
    ELSE [fired |-> epoch % t.period = 0, self |-> [t EXCEPT !.last = epoch]]

\* IntervalTrigger.__call__ answering once per iteration as it does once per
\* epoch.
IntervalTrigger_call_once_each(t, iteration, epoch) ==
    LET index == IF t.unit = "iteration" THEN iteration ELSE epoch
    IN [fired |-> (index % t.period = 0) /\ (index # t.last),
        self |-> [t EXCEPT !.last = index]]

\* IntervalTrigger.__call__: [fired, self'].
IntervalTrigger_call(t, iteration, epoch) ==
    IF t.unit = "iteration"
    THEN [fired |-> iteration % t.period = 0, self |-> t]
    ELSE [fired |-> (epoch % t.period = 0) /\ (epoch # t.last),
          self |-> [t EXCEPT !.last = epoch]]

\* EndTrigger.__call__ holding only where the counter equals the maximum.
EndTrigger_call_at_max(t, iteration, epoch) ==
    [fired |-> IF t.unit = "iteration" THEN iteration = t.period
               ELSE epoch = t.period,
     self |-> t]

\* EndTrigger.__call__
EndTrigger_call(t, iteration, epoch) ==
    [fired |-> IF t.unit = "iteration" THEN iteration >= t.period
               ELSE epoch >= t.period,
     self |-> t]

RECURSIVE Trigger_call(_, _, _)

\* An Or of two children that stops at the first child that fires.
Trigger_call_short_circuit(t, iteration, epoch) ==
    CASE t.type = "Interval" -> IntervalTrigger_call(t, iteration, epoch)
      [] t.type = "End" -> EndTrigger_call(t, iteration, epoch)
      [] OTHER ->
           LET r1 == Trigger_call(t.children[1], iteration, epoch)
               r2 == Trigger_call(t.children[2], iteration, epoch)
           IN IF r1.fired
              THEN [fired |-> TRUE,
                    self |-> [t EXCEPT !.children = <<r1.self, t.children[2]>>]]
              ELSE [fired |-> r2.fired,
                    self |-> [t EXCEPT !.children = <<r1.self, r2.self>>]]

\* One evaluator for the three kinds; an Or calls every child.
Trigger_call(t, iteration, epoch) ==
    CASE t.type = "Interval" -> IntervalTrigger_call(t, iteration, epoch)
      [] t.type = "End" -> EndTrigger_call(t, iteration, epoch)
      [] OTHER ->
           LET rs == [i \in 1..Len(t.children) |->
                         Trigger_call(t.children[i], iteration, epoch)]
           IN [fired |-> \E i \in 1..Len(rs) : rs[i].fired,
               self |-> [t EXCEPT !.children =
                            [i \in 1..Len(rs) |-> rs[i].self]]]

\* ------------------------------------------------------------ data: reviews

\* do not hold more than 10K histogram values in memory
HistCap == 10000
\* sample rate of an audio given without one
DefaultSampleRate == 16000

EmptyReview ==
    [losses |-> <<>>, scalars |-> <<>>, histograms |-> <<>>,
     audios |-> <<>>, images |-> <<>>]

\* The reviews a model hands out.  Names of losses and scalars are the
\* model's choice: one name may be used for a loss and for a scalar.
\* An audio is a (waveform, sample rate) pair or a bare waveform.
ReviewA1 == [EmptyReview EXCEPT !.losses = <<Item("a", 1)>>]
ReviewA3 == [EmptyReview EXCEPT !.losses = <<Item("a", 3)>>]
ReviewFull ==
    [losses |-> <<Item("b", 2), Item("a", 5)>>,
     scalars |-> <<Item("s", 4), Item("b", 6)>>,
     histograms |-> <<Item("h", <<7, 8>>)>>,
     audios |-> <<Item("u", <<"wave", 8000>>), Item("v", <<"bare">>)>>,
     images |-> <<Item("i", "img")>>]
Reviews == {ReviewA1, ReviewA3, ReviewFull}

\* A flattened histogram of n values: from + 1, ..., from + n.
Ramp(n, from) == [i \in 1..n |-> from + i]

\* Reviews with histograms of a size near the 10K values a buffer holds.
ReviewH6000 ==
    [EmptyReview EXCEPT !.histograms = <<Item("h", Ramp(6000, 0))>>]
ReviewH4001 ==
    [EmptyReview EXCEPT
        !.histograms = <<Item("h", Ramp(4001, 6000)), Item("g", <<7, 8>>)>>]
ReviewG3 ==
    [EmptyReview EXCEPT !.histograms = <<Item("g", <<1, 2, 3>>)>>]
HistReviews == {ReviewH6000, ReviewH4001, ReviewG3}

\* An audio value: <<waveform, rate>> is a tuple, <<waveform>> stands for a
\* bare waveform array.
IsPair(audio) == Len(audio) = 2

\* ------------------------------------------------------------- data: timer

\* The Timer: a dict from a metric name to its samples since the last reset.
EmptyTimer == <<>>
TimerRecord(timer, key, sample) ==
    Put(timer, key, Append(Get(timer, key, <<>>), sample))

\* What one training step records: every series, or (an exception skipped the
\* rest) the data loading alone.
FullTiming ==
    <<Item("time_per_data_loading", 1), Item("time_per_train_step", 2),
      Item("time_per_step", 4)>>
PartialTiming == <<Item("time_per_data_loading", 1)>>
NoTiming == <<>>

RECURSIVE TimerRecordAll(_, _)
TimerRecordAll(timer, samples) ==
    IF samples = <<>> THEN timer
    ELSE TimerRecordAll(TimerRecord(timer, samples[1].k, samples[1].v),
                        Tail(samples))

\* Trainer.reset_timer
reset_timer(timer) == EmptyTimer

\* -------------------------------------------------------------- BaseHook

\* A BaseHook.priority below StopTrainingHook's.
BaseHook_priority_below_end == 15 - 10

\* BaseHook.priority
BaseHook_priority == 15

\* ------------------------------------------------------------ SummaryHook

NoWriter == "<no writer>"

\* SummaryHook.priority
SummaryHook_priority == 50

\* SummaryHook.empty_summary_dict
empty_summary_dict ==
    [losses |-> <<>>, scalars |-> <<>>, histograms |-> <<>>,
     audios |-> <<>>, images |-> <<>>]

\* SummaryHook.reset_summary
reset_summary(self) == [self EXCEPT !.summary = empty_summary_dict]

\* SummaryHook.__init__ that drops its validate argument.
SummaryHook___init___no_validate(trigger, validate, summary_prefix) ==
    [trigger |-> IntervalTrigger_new(trigger),
     summary |-> empty_summary_dict,
     summary_prefix |-> summary_prefix,
     storage_dir |-> PyNone,
     writer |-> NoWriter]

\* SummaryHook.__init__
SummaryHook___init__(trigger, validate, summary_prefix) ==
    reset_summary(
        [trigger |-> IF validate = NoPair
                     THEN IntervalTrigger_new(trigger)
                     ELSE Or(IntervalTrigger_new(trigger),
                             IntervalTrigger_new(validate)),
         summary |-> empty_summary_dict,
         summary_prefix |-> summary_prefix,
         storage_dir |-> PyNone,
         writer |-> NoWriter])

\* The loops of update_summary over the items of one sub-dict of a review.
RECURSIVE AppendItems(_, _)
AppendItems(d, items) ==
    IF items = <<>> THEN d
    ELSE AppendItems(
             Put(d, items[1].k, Append(Get(d, items[1].k, <<>>), items[1].v)),
             Tail(items))

RECURSIVE ConcatItems(_, _)
ConcatItems(d, items) ==
    IF items = <<>> THEN d
    ELSE ConcatItems(
             Put(d, items[1].k,
                 LastN(Get(d, items[1].k, <<>>) \o items[1].v, HistCap)),
             Tail(items))

RECURSIVE SnapshotItems(_, _)
SnapshotItems(d, items) ==
    IF items = <<>> THEN d
    ELSE SnapshotItems(Put(d, items[1].k, items[1].v), Tail(items))

\* update_summary that lets the scalars of the review go.
update_summary_drops_scalars(self, review) ==
    [self EXCEPT
       !.summary =
          [losses |-> AppendItems(self.summary.losses, review.losses),
           scalars |-> self.summary.scalars,
           histograms |->
               ConcatItems(self.summary.histograms, review.histograms),
           audios |-> SnapshotItems(self.summary.audios, review.audios),
           images |-> SnapshotItems(self.summary.images, review.images)]]

\* SummaryHook.update_summary
update_summary(self, review) ==
    [self EXCEPT
       !.summary =
          [losses |-> AppendItems(self.summary.losses, review.losses),
           scalars |-> AppendItems(self.summary.scalars, review.scalars),
           histograms |->
               ConcatItems(self.summary.histograms, review.histograms),
           audios |-> SnapshotItems(self.summary.audios, review.audios),
           images |-> SnapshotItems(self.summary.images, review.images)]]

\* One write to the time-series log.  tag stands for f'{prefix}/{key}'.
Entry(kind, prefix, key, value, iteration, rate) ==
    [kind |-> kind, tag |-> <<prefix, key>>, value |-> value,
     step |-> iteration, rate |-> rate, dir |-> NoWriter]

\* The timer part of dump_summary: one entry per series of the timer.
TimerEntry(timer, i, prefix, iteration) ==
    LET key == timer[i].k
        scalar == timer[i].v
    IN IF key \in {"time_per_data_loading", "time_per_train_step"}
          /\ Has(timer, "time_per_step")
       THEN Entry("scalar", prefix,
                  IF key = "time_per_data_loading"
                  THEN "time_rel_data_loading" ELSE "time_rel_train_step",
                  Ratio(SeqSum(scalar),
                        SeqSum(Get(timer, "time_per_step", <<>>))),
                  iteration, 0)
       ELSE Entry("scalar", prefix, key, Mean(scalar), iteration, 0)

\* The 'timing bug' warning dump_summary prints.
TimerWarns(timer) ==
    \E i \in 1..Len(timer) :
        /\ timer[i].k \in {"time_per_data_loading", "time_per_train_step"}
        /\ Has(timer, "time_per_step")
        /\ Len(Get(timer, "time_per_step", <<>>)) # Len(timer[i].v)

AudioEntry(item, prefix, iteration) ==
    IF IsPair(item.v)
    THEN Entry("audio", prefix, item.k, item.v[1], iteration, item.v[2])
    ELSE Entry("audio", prefix, item.k, item.v[1], iteration,
               DefaultSampleRate)

\* The writes of one dump_summary, in the order the code makes them.
SummaryWrites(self, iteration, timer) ==
    LET prefix == self.summary_prefix
        s == self.summary
    IN [i \in 1..Len(s.losses) |->
           Entry("scalar", prefix, s.losses[i].k, Mean(s.losses[i].v),
                 iteration, 0)]
       \o [i \in 1..Len(s.scalars) |->
           Entry("scalar", prefix, s.scalars[i].k, Mean(s.scalars[i].v),
                 iteration, 0)]
       \o [i \in 1..Len(timer) |-> TimerEntry(timer, i, prefix, iteration)]
       \o [i \in 1..Len(s.histograms) |->
           Entry("histogram", prefix, s.histograms[i].k, s.histograms[i].v,
                 iteration, 0)]
       \o [i \in 1..Len(s.audios) |-> AudioEntry(s.audios[i], prefix, iteration)]
       \o [i \in 1..Len(s.images) |->
           Entry("image", prefix, s.images[i].k, s.images[i].v, iteration, 0)]

\* SummaryHook.writer: created on first use, from str(self.storage_dir).
writer(self) ==
    IF self.writer = NoWriter THEN Str(self.storage_dir) ELSE self.writer

\* dump_summary without its reset_summary().
dump_summary_keeps_summary(self, iteration, timer, log) ==
    LET writes == SummaryWrites(self, iteration, timer)
        w == IF writes = <<>> THEN self.writer ELSE writer(self)
    IN [self |-> [self EXCEPT !.writer = w],
        timer |-> reset_timer(timer),
        log |-> log \o [i \in 1..Len(writes) |->
                           [writes[i] EXCEPT !.dir = w]],
        warned |-> TimerWarns(timer)]

\* SummaryHook.dump_summary: [self, timer, log, warned].
dump_summary(self, iteration, timer, log) ==
    LET writes == SummaryWrites(self, iteration, timer)
        w == IF writes = <<>> THEN self.writer ELSE writer(self)
    IN [self |-> reset_summary([self EXCEPT !.writer = w]),
        timer |-> reset_timer(timer),
        log |-> log \o [i \in 1..Len(writes) |->
                           [writes[i] EXCEPT !.dir = w]],
        warned |-> TimerWarns(timer)]

\* What a call of a hook's method did: the hook after it, the trainer's timer
\* and the log after it, how it ended, and whether it called dump_summary and
\* trainer.validate.
Result(self, timer, log, outcome, flushed, validated, warned) ==
    [self |-> self, timer |-> timer, log |-> log, outcome |-> outcome,
     flushed |-> flushed, validated |-> validated, warned |-> warned]

\* SummaryHook.pre_step without its 'or trainer.iteration == 1'.
SummaryHook_pre_step_trigger_only(self, trainer, log) ==
    LET t == Trigger_call(self.trigger, trainer.iteration, trainer.epoch)
        self1 == [self EXCEPT !.trigger = t.self]
    IN IF t.fired
       THEN LET d == dump_summary(self1, trainer.iteration, trainer.timer, log)
            IN Result(d.self, d.timer, d.log, "ok", TRUE, 0, d.warned)
       ELSE Result(self1, trainer.timer, log, "ok", FALSE, 0, FALSE)

\* SummaryHook.pre_step
SummaryHook_pre_step(self, trainer, log) ==
    LET t == Trigger_call(self.trigger, trainer.iteration, trainer.epoch)
        self1 == [self EXCEPT !.trigger = t.self]
    IN IF t.fired \/ trainer.iteration = 1
       THEN LET d == dump_summary(self1, trainer.iteration, trainer.timer, log)
            IN Result(d.self, d.timer, d.log, "ok", TRUE, 0, d.warned)
       ELSE Result(self1, trainer.timer, log, "ok", FALSE, 0, FALSE)

\* SummaryHook.post_step with update_summary inside the else branch: the
\* first call only records the storage location.
SummaryHook_post_step_skips_first(self, trainer, log, review) ==
    IF self.storage_dir = PyNone
    THEN Result([self EXCEPT !.storage_dir = trainer.storage_dir],
                trainer.timer, log, "ok", FALSE, 0, FALSE)
    ELSE IF self.storage_dir # trainer.storage_dir
    THEN Result(self, trainer.timer, log, "AssertionError", FALSE, 0, FALSE)
    ELSE Result(update_summary(self, review),
                trainer.timer, log, "ok", FALSE, 0, FALSE)

\* SummaryHook.post_step that follows the trainer to another storage
\* location instead of asserting that it is the same.
SummaryHook_post_step_rebinds(self, trainer, log, review) ==
    Result(update_summary(
               [self EXCEPT !.storage_dir = trainer.storage_dir], review),
           trainer.timer, log, "ok", FALSE, 0, FALSE)

\* SummaryHook.post_step
SummaryHook_post_step(self, trainer, log, review) ==
    IF self.storage_dir = PyNone
    THEN Result(update_summary(
                    [self EXCEPT !.storage_dir = trainer.storage_dir], review),
                trainer.timer, log, "ok", FALSE, 0, FALSE)
    ELSE IF self.storage_dir # trainer.storage_dir
    THEN Result(self, trainer.timer, log, "AssertionError", FALSE, 0, FALSE)
    ELSE Result(update_summary(self, review),
                trainer.timer, log, "ok", FALSE, 0, FALSE)

\* SummaryHook.close that flushes as pre_step does: only when triggered.
SummaryHook_close_if_triggered(self, trainer, log) ==
    SummaryHook_pre_step(self, trainer, log)

\* SummaryHook.close stamping its writes with the epoch.
SummaryHook_close_at_epoch(self, trainer, log) ==
    LET d == dump_summary(self, trainer.epoch, trainer.timer, log)
    IN Result(d.self, d.timer, d.log, "ok", TRUE, 0, d.warned)

\* SummaryHook.close
SummaryHook_close(self, trainer, log) ==
    LET d == dump_summary(self, trainer.iteration, trainer.timer, log)
    IN Result(d.self, d.timer, d.log, "ok", TRUE, 0, d.warned)

\* --------------------------------------------------------- ValidationHook

\* ValidationHook.priority
ValidationHook_priority == 20

\* ValidationHook.__init__
ValidationHook___init__(trigger) ==
    SummaryHook___init__(trigger, NoPair, "validation")

RECURSIVE UpdateAll(_, _)
UpdateAll(self, evaluation) ==
    IF evaluation = <<>> THEN self
    ELSE UpdateAll(update_summary(self, evaluation[1]), Tail(evaluation))

\* ValidationHook.pre_step without its first assert.
ValidationHook_pre_step_unchecked(self, trainer, log, evaluation, timings) ==
    LET t == Trigger_call(self.trigger, trainer.iteration, trainer.epoch)
        self1 == [self EXCEPT !.trigger = t.self]
    IN IF ~t.fired
       THEN Result(self1, trainer.timer, log, "ok", FALSE, 0, FALSE)
       ELSE LET self2 == UpdateAll(self1, evaluation)
                timer2 == TimerRecordAll(trainer.timer, timings)
                d == dump_summary(self2, trainer.iteration, timer2, log)
            IN Result(d.self, d.timer, d.log,
                      IF Len(d.timer) # 0 THEN "AssertionError" ELSE "ok",
                      TRUE, 1, d.warned)

\* ValidationHook.pre_step folding only the first review of the pass.
ValidationHook_pre_step_first_only(self, trainer, log, evaluation, timings) ==
    LET t == Trigger_call(self.trigger, trainer.iteration, trainer.epoch)
        self1 == [self EXCEPT !.trigger = t.self]
    IN IF ~t.fired
       THEN Result(self1, trainer.timer, log, "ok", FALSE, 0, FALSE)
       ELSE IF Len(trainer.timer) # 0
       THEN Result(self1, trainer.timer, log, "AssertionError", FALSE, 0,
                   FALSE)
       ELSE LET self2 == UpdateAll(self1, IF evaluation = <<>> THEN <<>>
                                          ELSE <<evaluation[1]>>)
                timer2 == TimerRecordAll(trainer.timer, timings)
                d == dump_summary(self2, trainer.iteration, timer2, log)
            IN Result(d.self, d.timer, d.log,
                      IF Len(d.timer) # 0 THEN "AssertionError" ELSE "ok",
                      TRUE, 1, d.warned)

\* ValidationHook.pre_step.  trainer.validate(iterator) hands out the reviews
\* of `evaluation`; drawing them records `timings` in the trainer's timer.
ValidationHook_pre_step(self, trainer, log, evaluation, timings) ==
    LET t == Trigger_call(self.trigger, trainer.iteration, trainer.epoch)
        self1 == [self EXCEPT !.trigger = t.self]
    IN IF ~t.fired
       THEN Result(self1, trainer.timer, log, "ok", FALSE, 0, FALSE)
       ELSE IF Len(trainer.timer) # 0
       THEN Result(self1, trainer.timer, log, "AssertionError", FALSE, 0,
                   FALSE)
       ELSE LET self2 == UpdateAll(self1, evaluation)
                timer2 == TimerRecordAll(trainer.timer, timings)
                d == dump_summary(self2, trainer.iteration, timer2, log)
            IN Result(d.self, d.timer, d.log,
                      IF Len(d.timer) # 0 THEN "AssertionError" ELSE "ok",
                      TRUE, 1, d.warned)

\* ValidationHook.post_step and ValidationHook.close are SummaryHook's.
ValidationHook_post_step(self, trainer, log, review) ==
    SummaryHook_post_step(self, trainer, log, review)
ValidationHook_close(self, trainer, log) ==
    SummaryHook_close(self, trainer, log)

\* ------------------------------------------------------- StopTrainingHook

\* StopTrainingHook.priority
StopTrainingHook_priority == 10

\* StopTrainingHook.__init__
StopTrainingHook___init__(trigger) == [trigger |-> EndTrigger_new(trigger)]

\* StopTrainingHook.pre_step that raises only the first time the trigger
\* holds (an edge, where the code re-checks a level).
StopTrainingHook_pre_step_edge(self, trainer, log) ==
    LET t == Trigger_call(self.trigger, trainer.iteration, trainer.epoch)
        self1 == [self EXCEPT !.trigger.last = IF t.fired THEN 1 ELSE @]
    IN Result(self1, trainer.timer, log,
              IF t.fired /\ self.trigger.last # 1
              THEN "StopTraining" ELSE "ok", FALSE, 0, FALSE)

\* StopTrainingHook.pre_step
StopTrainingHook_pre_step(self, trainer, log) ==
    LET t == Trigger_call(self.trigger, trainer.iteration, trainer.epoch)
        self1 == [self EXCEPT !.trigger = t.self]
    IN Result(self1, trainer.timer, log,
              IF t.fired THEN "StopTraining" ELSE "ok", FALSE, 0, FALSE)

\* BaseHook.pre_step, BaseHook.post_step, BaseHook.close: pass
BaseHook_pass(self, trainer, log) ==
    Result(self, trainer.timer, log, "ok", FALSE, 0, FALSE)

\* The priority property of each hook class.
priority(hook) ==
    CASE hook = "summary" -> SummaryHook_priority
      [] hook = "validation" -> ValidationHook_priority
      [] hook = "stop" -> StopTrainingHook_priority
      [] OTHER -> BaseHook_priority

\* ------------------------------------------------------------------ state

VARIABLES
    config,          \* the triggers the hooks were built from
    trainer,         \* [iteration, epoch, timer, storage_dir]
    summaryHook,     \* the SummaryHook
    validationHook,  \* the ValidationHook
    stopHook,        \* the StopTrainingHook
    log,             \* the time-series log: every write so far, in order
    review,          \* the review of the step just made
    pc,              \* where the driver is
    cursor,          \* the loop's position in its list of hooks
    calls,           \* the number of hook methods called so far
    ev,              \* the last call of a hook method, and what it did
    fed,             \* per hook, the losses and scalars handed to it since
                     \* its last dump_summary
    alone,           \* the SummaryHook's interval triggers, each as an
                     \* instance of its own called once per pre_step
    trace,           \* the calls made of the triggers themselves: where,
                     \* and what each trigger answered
    input,           \* the arguments of a function called on its own
    output           \* what it returned, or how it failed

vars == <<config, trainer, summaryHook, validationHook, stopHook, log,
          review, pc, cursor, calls, ev, fed, alone, trace, input, output>>

\* What the calls of the hooks' methods leave alone.
probes == <<trace, input, output>>

\* The hooks the loop holds, in the order it calls them: by descending
\* priority.
Registered == {"summary", "validation", "stop", "base"}

RECURSIVE SortByPriority(_)
SortByPriority(S) ==
    IF S = {} THEN <<>>
    ELSE LET h == CHOOSE x \in S : \A y \in S : priority(x) >= priority(y)
         IN <<h>> \o SortByPriority(S \ {h})

Hooks == SortByPriority(Registered)

Configs ==
    [summary_trigger : {<<2, "iteration">>, <<1, "epoch">>},
     validate : {NoPair, <<1, "epoch">>, <<3, "iteration">>},
     validation_trigger : {<<1, "epoch">>, <<3, "iteration">>},
     max_trigger : {<<3, "epoch">>, <<2, "iteration">>}]

\* What a training step yields: a review and the timings it records.
StepOutcomes ==
    {[review |-> ReviewA3, timing |-> FullTiming],
     [review |-> ReviewFull, timing |-> PartialTiming]}

\* What a validation pass yields.
ValidationRuns ==
    {[evaluation |-> <<>>, timings |-> NoTiming],
     [evaluation |-> <<ReviewA3, ReviewA1>>, timings |-> NoTiming],
     [evaluation |-> <<ReviewFull>>, timings |-> PartialTiming]}

StorageDir == "exp/run"

\* Every value of every histogram handed in under a name, in arrival order.
RECURSIVE ExtendItems(_, _)
ExtendItems(d, items) ==
    IF items = <<>> THEN d
    ELSE ExtendItems(
             Put(d, items[1].k, Get(d, items[1].k, <<>>) \o items[1].v),
             Tail(items))

NoFeed == [losses |-> <<>>, scalars |-> <<>>, histograms |-> <<>>]
Feed(f, r) ==
    [losses |-> AppendItems(f.losses, r.losses),
     scalars |-> AppendItems(f.scalars, r.scalars),
     histograms |-> ExtendItems(f.histograms, r.histograms)]
RECURSIVE FeedAll(_, _)
FeedAll(f, rs) == IF rs = <<>> THEN f ELSE FeedAll(Feed(f, rs[1]), Tail(rs))

NoEvent ==
    [hook |-> "", op |-> "", iteration |-> 0, epoch |-> 0, outcome |-> "ok",
     flushed |-> FALSE, validated |-> 0, warned |-> FALSE, fired |-> FALSE,
     evaluation |-> <<>>]

Event(hook, op, r, fired) ==
    [hook |-> hook, op |-> op, iteration |-> trainer.iteration,
     epoch |-> trainer.epoch, outcome |-> r.outcome, flushed |-> r.flushed,
     validated |-> r.validated, warned |-> r.warned, fired |-> fired,
     evaluation |-> <<>>]

InitHooks ==
    /\ config.validate \in {NoPair, config.validation_trigger}
    /\ summaryHook = SummaryHook___init__(config.summary_trigger,
                                          config.validate, "training")
    /\ validationHook = ValidationHook___init__(config.validation_trigger)
    /\ stopHook = StopTrainingHook___init__(config.max_trigger)
    /\ trainer = [iteration |-> 0, epoch |-> 0, timer |-> EmptyTimer,
                  storage_dir |-> StorageDir]
    /\ log = <<>>
    /\ review = EmptyReview
    /\ calls = 0
    /\ ev = NoEvent
    /\ trace = <<>>
    /\ fed = [h \in {"summary", "validation"} |-> NoFeed]
    /\ alone = [own |-> IntervalTrigger_new(config.summary_trigger),
                companion |-> IF config.validate = NoPair
                              THEN IntervalTrigger_new(config.summary_trigger)
                              ELSE IntervalTrigger_new(config.validate)]

\* ------------------------------------------------------------ the loop

\* No function is called on its own.
NoCall == input = <<>> /\ output = <<>>

Init ==
    config \in Configs /\ InitHooks /\ NoCall /\ pc = "pre" /\ cursor = 1

\* After a call made by the loop: on to the next hook or the next phase; a
\* StopTraining ends the loop, which then closes the hooks; any other
\* exception ends the run.
LoopAfter(outcome) ==
    IF outcome = "StopTraining" THEN pc' = "close" /\ cursor' = 1
    ELSE IF outcome # "ok" THEN pc' = "failed" /\ cursor' = cursor
    ELSE IF cursor < Len(Hooks) THEN pc' = pc /\ cursor' = cursor + 1
    ELSE /\ cursor' = 1
         /\ pc' = CASE pc = "pre" -> "step"
                    [] pc = "post" -> "pre"
                    [] OTHER -> "done"

At(phase, hook) == pc = phase /\ Hooks[cursor] = hook

\* A call's effect on the trainer's timer, the log and the call record.
Effect(hook, op, r, fired) ==
    /\ trainer' = [trainer EXCEPT !.timer = r.timer]
    /\ log' = r.log
    /\ calls' = calls + 1
    /\ ev' = Event(hook, op, r, fired)

SummaryFires ==
    Trigger_call(summaryHook.trigger, trainer.iteration, trainer.epoch).fired
ValidationFires ==
    Trigger_call(validationHook.trigger, trainer.iteration,
                 trainer.epoch).fired
StopFires ==
    Trigger_call(stopHook.trigger, trainer.iteration, trainer.epoch).fired

Call_summary_pre_step ==
    LET r == SummaryHook_pre_step(summaryHook, trainer, log)
    IN /\ summaryHook' = r.self
       /\ Effect("summary", "pre_step", r, SummaryFires)
       /\ fed' = IF r.flushed THEN [fed EXCEPT !["summary"] = NoFeed] ELSE fed
       /\ alone' = [k \in DOMAIN alone |->
                       IntervalTrigger_call(alone[k], trainer.iteration,
                                            trainer.epoch).self]
       /\ UNCHANGED <<probes, config, validationHook, stopHook, review>>

Call_summary_post_step(rv) ==
    LET r == SummaryHook_post_step(summaryHook, trainer, log, rv)
    IN /\ summaryHook' = r.self
       /\ Effect("summary", "post_step", r, SummaryFires)
       /\ fed' = IF r.outcome = "ok"
                 THEN [fed EXCEPT !["summary"] = Feed(@, rv)] ELSE fed
       /\ UNCHANGED <<probes, config, validationHook, stopHook, alone>>

Call_summary_close ==
    LET r == SummaryHook_close(summaryHook, trainer, log)
    IN /\ summaryHook' = r.self
       /\ Effect("summary", "close", r, SummaryFires)
       /\ fed' = IF r.flushed THEN [fed EXCEPT !["summary"] = NoFeed] ELSE fed
       /\ UNCHANGED <<probes, config, validationHook, stopHook, review, alone>>

Call_validation_pre_step(run) ==
    LET r == ValidationHook_pre_step(validationHook, trainer, log,
                                     run.evaluation, run.timings)
    IN /\ validationHook' = r.self
       /\ trainer' = [trainer EXCEPT !.timer = r.timer]
       /\ log' = r.log
       /\ calls' = calls + 1
       /\ ev' = [Event("validation", "pre_step", r, ValidationFires)
                    EXCEPT !.evaluation = IF r.validated = 0 THEN <<>>
                                          ELSE run.evaluation]
       /\ fed' = IF r.flushed THEN [fed EXCEPT !["validation"] = NoFeed]
                 ELSE fed
       /\ UNCHANGED <<probes, config, summaryHook, stopHook, review, alone>>

Call_validation_post_step(rv) ==
    LET r == ValidationHook_post_step(validationHook, trainer, log, rv)
    IN /\ validationHook' = r.self
       /\ Effect("validation", "post_step", r, ValidationFires)
       /\ fed' = IF r.outcome = "ok"
                 THEN [fed EXCEPT !["validation"] = Feed(@, rv)] ELSE fed
       /\ UNCHANGED <<probes, config, summaryHook, stopHook, alone>>

Call_validation_close ==
    LET r == ValidationHook_close(validationHook, trainer, log)
    IN /\ validationHook' = r.self
       /\ Effect("validation", "close", r, ValidationFires)
       /\ fed' = IF r.flushed THEN [fed EXCEPT !["validation"] = NoFeed]
                 ELSE fed
       /\ UNCHANGED <<probes, config, summaryHook, stopHook, review, alone>>

Call_stop_pre_step ==
    LET r == StopTrainingHook_pre_step(stopHook, trainer, log)
    IN /\ stopHook' = r.self
       /\ Effect("stop", "pre_step", r, StopFires)
       /\ UNCHANGED <<probes, config, summaryHook, validationHook, review, fed,
                      alone>>

\* A method a hook class does not override: BaseHook's, which passes.
Call_pass(hook, op) ==
    LET r == BaseHook_pass(stopHook, trainer, log)
    IN /\ Effect(hook, op, r, FALSE)
       /\ UNCHANGED <<probes, config,
                      summaryHook, validationHook, stopHook, review,
                      fed, alone>>

PreStepSummary ==
    /\ At("pre", "summary")
    /\ Call_summary_pre_step
    /\ LoopAfter(ev'.outcome)

PreStepValidation ==
    /\ At("pre", "validation")
    /\ \E run \in ValidationRuns : Call_validation_pre_step(run)
    /\ LoopAfter(ev'.outcome)

PreStepStop ==
    /\ At("pre", "stop")
    /\ Call_stop_pre_step
    /\ LoopAfter(ev'.outcome)

PreStepBase ==
    /\ At("pre", "base")
    /\ Call_pass("base", "pre_step")
    /\ LoopAfter(ev'.outcome)

\* One training step: the next example, the model's review of it, the
\* timings; the pass over the training data may end with it.
TrainStep ==
    /\ pc = "step"
    /\ trainer.iteration < MaxIter
    /\ \E o \in StepOutcomes, pass \in {0, 1} :
          /\ trainer' = [trainer EXCEPT
                            !.iteration = @ + 1,
                            !.epoch = @ + pass,
                            !.timer = TimerRecordAll(@, o.timing)]
          /\ review' = o.review
    /\ pc' = "post"
    /\ cursor' = 1
    /\ UNCHANGED <<probes, config,
                   summaryHook, validationHook, stopHook, log, calls,
                   ev, fed, alone>>

PostStepSummary ==
    /\ At("post", "summary")
    /\ Call_summary_post_step(review)
    /\ review' = review
    /\ LoopAfter(ev'.outcome)

PostStepValidation ==
    /\ At("post", "validation")
    /\ Call_validation_post_step(review)
    /\ review' = review
    /\ LoopAfter(ev'.outcome)

PostStepOther ==
    /\ pc = "post"
    /\ Hooks[cursor] \in {"stop", "base"}
    /\ Call_pass(Hooks[cursor], "post_step")
    /\ LoopAfter(ev'.outcome)

CloseSummary ==
    /\ At("close", "summary")
    /\ Call_summary_close
    /\ LoopAfter(ev'.outcome)

CloseValidation ==
    /\ At("close", "validation")
    /\ Call_validation_close
    /\ LoopAfter(ev'.outcome)

CloseOther ==
    /\ pc = "close"
    /\ Hooks[cursor] \in {"stop", "base"}
    /\ Call_pass(Hooks[cursor], "close")
    /\ LoopAfter(ev'.outcome)

Next ==
    \/ PreStepSummary
    \/ PreStepValidation
    \/ PreStepStop
    \/ PreStepBase
    \/ TrainStep
    \/ PostStepSummary
    \/ PostStepValidation
    \/ PostStepOther
    \/ CloseSummary
    \/ CloseValidation
    \/ CloseOther

Spec == Init /\ [][Next]_vars

\* ------------------------------------------------------- direct calls

\* A SummaryHook and a StopTrainingHook called directly, in any order, while
\* the trainer's counters go up: what a test of the hooks does.
FreeConfigs ==
    {c \in Configs : /\ c.summary_trigger = <<2, "iteration">>
                     /\ c.validation_trigger = <<1, "epoch">>}

FreeInit ==
    /\ config \in FreeConfigs /\ InitHooks /\ NoCall
    /\ pc = "free" /\ cursor = 1

Budget == pc = "free" /\ calls < MaxCalls

\* The trainer moves on by one iteration, into a new epoch or not.
FreeAdvance ==
    /\ Budget
    /\ \E pass \in {0, 1} :
          trainer' = [trainer EXCEPT
                         !.iteration = @ + 1,
                         !.epoch = @ + pass,
                         !.timer = TimerRecordAll(@, FullTiming)]
    /\ calls' = calls + 1
    /\ ev' = [NoEvent EXCEPT !.op = "advance"]
    /\ UNCHANGED <<probes, config,
                   summaryHook, validationHook, stopHook, log, review,
                   pc, cursor, fed, alone>>

FreeSummaryPreStep ==
    /\ Budget
    /\ Call_summary_pre_step
    /\ UNCHANGED <<pc, cursor>>

FreeSummaryPostStep ==
    /\ Budget
    /\ \E rv \in Reviews : Call_summary_post_step(rv) /\ review' = rv
    /\ UNCHANGED <<pc, cursor>>

FreeSummaryClose ==
    /\ Budget
    /\ Call_summary_close
    /\ UNCHANGED <<pc, cursor>>

FreeStopPreStep ==
    /\ Budget
    /\ Call_stop_pre_step
    /\ UNCHANGED <<pc, cursor>>

FreeNext ==
    \/ FreeAdvance
    \/ FreeSummaryPreStep
    \/ FreeSummaryPostStep
    \/ FreeSummaryClose
    \/ FreeStopPreStep

FreeSpec == FreeInit /\ [][FreeNext]_vars

\* ------------------------------------------ direct calls: storage_dir

\* The hooks called directly by trainers that do not all report the same
\* storage location.
StorageDirs == {StorageDir, "exp/other"}

\* The next calls are made with a trainer of another storage location.
DirRelocate ==
    /\ Budget
    /\ \E dir \in StorageDirs \ {trainer.storage_dir} :
          trainer' = [trainer EXCEPT !.storage_dir = dir]
    /\ calls' = calls + 1
    /\ ev' = [NoEvent EXCEPT !.op = "relocate"]
    /\ UNCHANGED <<probes, config,
                   summaryHook, validationHook, stopHook, log, review,
                   pc, cursor, fed, alone>>

\* ValidationHook.post_step is SummaryHook's.
DirValidationPostStep ==
    /\ Budget
    /\ Call_validation_post_step(ReviewA1) /\ review' = ReviewA1
    /\ UNCHANGED <<pc, cursor>>

DirNext ==
    \/ DirRelocate
    \/ FreeSummaryPreStep
    \/ FreeSummaryPostStep
    \/ FreeSummaryClose
    \/ DirValidationPostStep

DirSpec == FreeInit /\ [][DirNext]_vars

\* -------------------------------------------- direct calls: update_summary

\* A SummaryHook whose update_summary and reset_summary are called directly.
HistConfig ==
    [summary_trigger |-> <<2, "iteration">>, validate |-> NoPair,
     validation_trigger |-> <<1, "epoch">>, max_trigger |-> <<3, "epoch">>]

HistInit ==
    config = HistConfig /\ InitHooks /\ NoCall /\ pc = "hist" /\ cursor = 1

HistUpdate ==
    /\ pc = "hist" /\ calls < MaxFeeds
    /\ \E rv \in HistReviews :
          /\ summaryHook' = update_summary(summaryHook, rv)
          /\ review' = rv
          /\ fed' = [fed EXCEPT !["summary"] = Feed(@, rv)]
    /\ calls' = calls + 1
    /\ ev' = [NoEvent EXCEPT !.hook = "summary", !.op = "update_summary"]
    /\ UNCHANGED <<probes, config, trainer, validationHook, stopHook, log, pc,
                   cursor, alone>>

HistReset ==
    /\ pc = "hist" /\ calls < MaxFeeds
    /\ summaryHook' = reset_summary(summaryHook)
    /\ fed' = [fed EXCEPT !["summary"] = NoFeed]
    /\ calls' = calls + 1
    /\ ev' = [NoEvent EXCEPT !.hook = "summary", !.op = "reset_summary"]
    /\ UNCHANGED <<probes, config,
                   trainer, validationHook, stopHook, log, review,
                   pc, cursor, alone>>

HistNext == HistUpdate \/ HistReset

HistSpec == HistInit /\ [][HistNext]_vars

\* ------------------------------------------------ direct calls: triggers

\* The triggers of the hooks, called themselves while the trainer's counters
\* go up: the Or a SummaryHook builds from its trigger and validate, the
\* interval trigger of a ValidationHook, the end trigger of a
\* StopTrainingHook; beside them an instance of its own of every interval
\* trigger, and the two ways of nesting three of them in Or triggers.
TriggerConfigs ==
    {c \in [summary_trigger : (1..MaxPeriod) \X {"iteration", "epoch"},
            validate : {<<1, "epoch">>, <<2, "epoch">>},
            validation_trigger : {<<1, "epoch">>, <<2, "epoch">>},
            max_trigger : {<<MaxPeriod, "iteration">>, <<2, "epoch">>}] :
        c.validate = c.validation_trigger}

TriggerInit ==
    /\ config \in TriggerConfigs
    /\ summaryHook = SummaryHook___init__(config.summary_trigger,
                                          config.validate, "training")
    /\ validationHook = ValidationHook___init__(config.validation_trigger)
    /\ stopHook = StopTrainingHook___init__(config.max_trigger)
    /\ trainer = [iteration |-> 0, epoch |-> 0, timer |-> EmptyTimer,
                  storage_dir |-> StorageDir]
    /\ alone =
          LET a == IntervalTrigger_new(config.summary_trigger)
              b == IntervalTrigger_new(config.validate)
              c == IntervalTrigger_new(config.max_trigger)
          IN [own |-> a, companion |-> b, third |-> c,
              left |-> Or(Or(a, b), c), right |-> Or(a, Or(b, c))]
    /\ trace = <<>>
    /\ log = <<>> /\ review = EmptyReview /\ calls = 0 /\ ev = NoEvent
    /\ fed = [h \in {"summary", "validation"} |-> NoFeed]
    /\ NoCall
    /\ pc = "trigger" /\ cursor = 1

\* The calls made at the trainer's current iteration.
CallsHere ==
    Len(SelectSeq(trace, LAMBDA r : r.iteration = trainer.iteration))

\* Every trigger is called with the trainer's counters: once, or once more.
TriggerCallAll ==
    /\ pc = "trigger" /\ CallsHere < 2
    /\ LET s == Trigger_call(summaryHook.trigger, trainer.iteration,
                             trainer.epoch)
           v == Trigger_call(validationHook.trigger, trainer.iteration,
                             trainer.epoch)
           e == Trigger_call(stopHook.trigger, trainer.iteration,
                             trainer.epoch)
           al == [k \in DOMAIN alone |->
                     Trigger_call(alone[k], trainer.iteration, trainer.epoch)]
       IN /\ summaryHook' = [summaryHook EXCEPT !.trigger = s.self]
          /\ validationHook' = [validationHook EXCEPT !.trigger = v.self]
          /\ stopHook' = [stopHook EXCEPT !.trigger = e.self]
          /\ alone' = [k \in DOMAIN alone |-> al[k].self]
          /\ trace' = Append(trace,
                 [iteration |-> trainer.iteration, epoch |-> trainer.epoch,
                  fired |-> [summary |-> s.fired, validation |-> v.fired,
                             stop |-> e.fired, own |-> al.own.fired,
                             companion |-> al.companion.fired,
                             third |-> al.third.fired,
                             left |-> al.left.fired,
                             right |-> al.right.fired]])
    /\ UNCHANGED <<config, trainer, log, review, pc, cursor, calls, ev, fed,
                   input, output>>

\* The next iteration, in the same epoch or in the next one.
TriggerAdvance ==
    /\ pc = "trigger" /\ CallsHere > 0
    /\ trainer.iteration < MaxTicks
    /\ \E pass \in {0, 1} :
          trainer' = [trainer EXCEPT !.iteration = @ + 1, !.epoch = @ + pass]
    /\ UNCHANGED <<config, summaryHook, validationHook, stopHook, log, review,
                   pc, cursor, calls, ev, fed, alone, probes>>

TriggerNext == TriggerCallAll \/ TriggerAdvance

TriggerSpec == TriggerInit /\ [][TriggerNext]_vars

\* --------------------------------------------------- ops/losses/loss.py

\* A tensor is a sequence of sequences (of sequences) of numbers; its
\* entries here are whole numbers, which float arithmetic keeps exact.
Size2(x) == <<Len(x), Len(x[1])>>
Size3(x) == <<Len(x), Len(x[1]), Len(x[1][1])>>
Tensors2(n, e) == [1..n -> [1..e -> 0..MaxVal]]
Tensors3(t, k, f) == [1..t -> [1..k -> [1..f -> 0..MaxVal]]]

\* The smaller of two quotients.
RatioMin(p, q) == IF p.num * q.den <= q.num * p.den THEN p ELSE q

\* torch.nn.functional.mse_loss(a, b) of two tensors of one size
MseLoss(a, b) ==
    Ratio(SeqSum([t \in 1..Len(a) |->
             SeqSum([k \in 1..Len(a[t]) |->
                SeqSum([f \in 1..Len(a[t][k]) |->
                   (a[t][k][f] - b[t][k][f]) * (a[t][k][f] - b[t][k][f])])])]),
          Len(a) * Len(a[1]) * Len(a[1][1]))

\* target[:, permutation, :], the permutation counting from 0
TakeSources(target, permutation) ==
    [t \in 1..Len(target) |->
        [k \in 1..Len(permutation) |-> target[t][permutation[k] + 1]]]

\* itertools.permutations(range(sources)) for sources = 2
PermutationsOfTwo == <<(<<0, 1>>), (<<1, 0>>)>>

\* What a function called on its own returned, or the exception it raised.
Returned(value) == [outcome |-> "ok", value |-> value]
Raised(exception) == [outcome |-> exception, value |-> PyNone]

\* pit_mse_loss with the identity as its only candidate.
pit_mse_loss_identity_only(estimate, target) ==
    IF Size3(estimate) # Size3(target) THEN Raised("AssertionError")
    ELSE IF Len(target[1]) < 2 THEN Raised("IndexError")
    ELSE Returned(MseLoss(estimate, TakeSources(target, PermutationsOfTwo[1])))

\* pit_mse_loss
pit_mse_loss(estimate, target) ==
    IF Size3(estimate) # Size3(target) THEN Raised("AssertionError")
    ELSE IF Len(target[1]) < 2 THEN Raised("IndexError")
    ELSE LET candidates ==
                [i \in 1..Len(PermutationsOfTwo) |->
                    MseLoss(estimate,
                            TakeSources(target, PermutationsOfTwo[i]))]
         IN Returned(RatioMin(candidates[1], candidates[2]))

\* The estimates and targets pit_mse_loss is called with: (T, K, F) tensors
\* of one or two frames, one or two sources, one or two frequencies.
PitTensors ==
    Tensors3(1, 2, 1) \cup Tensors3(2, 2, 1) \cup Tensors3(1, 2, 2)
    \cup Tensors3(1, 1, 1)
PitInputs ==
    [fn : {"pit_mse_loss"}, estimate : PitTensors, target : PitTensors]

\* einsum('ne,nE->eE', a, b): the products of the columns of a and b
Gram(a, b) ==
    [i \in 1..Len(a[1]) |->
        [j \in 1..Len(b[1]) |->
            SeqSum([n \in 1..Len(a) |-> a[n][i] * b[n][j]])]]

\* torch.sum(m ** 2)
SumSq(m) ==
    SeqSum([i \in 1..Len(m) |->
               SeqSum([j \in 1..Len(m[i]) |-> m[i][j] * m[i][j]])])

\* deep_clustering_loss of two tensors x (N, E) and t (N, K).  The three
\* sums balance to a number that is not negative, where '//' rounds down.
deep_clustering_loss(x, t) ==
    LET N == Size2(x)[1]
    IN Returned((SumSq(Gram(x, x)) - 2 * SumSq(Gram(x, t))
                 + SumSq(Gram(t, t))) \div (N * N))

\* The embeddings and target masks deep_clustering_loss is called with:
\* N = 1 or 2 rows, E = 1 or 2 embedding dimensions, K = 2 classes.
DcInputs ==
    UNION {[fn : {"deep_clustering_loss"},
            x : Tensors2(n, 1) \cup Tensors2(n, 2),
            t : Tensors2(n, 2)] : n \in {1, 2}}

\* --------------------------------- contrib/examples/mask_estimator/train.py

\* A configuration is a nested dict: the value of a key is a leaf or a dict.
Leaf(v) == [dict |-> FALSE, v |-> v]
Node(items) == [dict |-> TRUE, v |-> items]

\* paderbox.utils.nested.flatten: one item per leaf, its key being the path
\* of keys that leads to it (the keys joined by '.', none of them holding
\* a '.' itself).
RECURSIVE Flatten(_, _)
Flatten(d, prefix) ==
    IF d = <<>> THEN <<>>
    ELSE (IF d[1].v.dict
          THEN Flatten(d[1].v.v, Append(prefix, d[1].k))
          ELSE <<Item(Append(prefix, d[1].k), d[1].v.v)>>)
         \o Flatten(Tail(d), prefix)

\* [key for key in ...]: the keys of the items, in their order.
KeysOf(items) == [i \in 1..Len(items) |-> items[i].k]

\* compare_configs that warns of the keys the init has alone.
compare_configs_lenient(init_json, current) ==
    LET c == Flatten(current, <<>>)
        init == Flatten(init_json, <<>>)
        unused == KeysOf(SelectSeq(init, LAMBDA it : ~Has(c, it.k)))
        added == KeysOf(SelectSeq(c, LAMBDA it : ~Has(init, it.k)))
    IN [outcome |-> "ok",
        value |-> (IF unused # <<>>
                   THEN <<[kind |-> "unused", keys |-> unused]>> ELSE <<>>)
                  \o (IF added # <<>>
                      THEN <<[kind |-> "added", keys |-> added]>> ELSE <<>>),
        config |-> current, init_json |-> init_json]

\* compare_configs(storage_dir, config), init_json being what the file
\* storage_dir / 'init.json' holds: the exception raised or 'ok', the
\* warnings given, and the configuration and the file after the call.
compare_configs(init_json, current) ==
    LET c == Flatten(current, <<>>)
        init == Flatten(init_json, <<>>)
        changed == KeysOf(SelectSeq(init, LAMBDA it :
                                       it.v # Get(c, it.k, PyNone)))
        added == KeysOf(SelectSeq(c, LAMBDA it : ~Has(init, it.k)))
    IN IF \E i \in 1..Len(init) : ~Has(c, init[i].k)
       THEN [outcome |-> "AssertionError", value |-> <<>>,
             config |-> current, init_json |-> init_json]
       ELSE [outcome |-> "ok",
             value |-> (IF changed # <<>>
                        THEN <<[kind |-> "changed", keys |-> changed]>>
                        ELSE <<>>)
                       \o (IF added # <<>>
                           THEN <<[kind |-> "added", keys |-> added]>>
                           ELSE <<>>),
             config |-> current, init_json |-> init_json]

\* The configurations of a run: trainer_opts with a class and with or
\* without a seed, and with or without provider_opts, which hold a class.
OptionalItem(key, values) ==
    {<<>>} \cup {<<Item(key, Leaf(v))>> : v \in values}
RunConfigs ==
    {<<Item("trainer_opts", Node(seed \o cls))>> \o provider :
        seed \in OptionalItem("seed", 0..MaxVal),
        cls \in OptionalItem("cls", 0..MaxVal) \ {<<>>},
        provider \in {<<>>}
            \cup {<<Item("provider_opts", Node(p))>> :
                     p \in OptionalItem("cls", 0..MaxVal) \ {<<>>}}}
CompareInputs ==
    [fn : {"compare_configs"}, init_json : RunConfigs, config : RunConfigs]

\* The tasks of the experiment's commands.
Tasks == {"train", "create_checkpoint", "restart", "validate"}

\* Path(basedir) of the run's FileObserver, as the configuration holds it;
\* a json file holds it as the string StorageDir.
StoragePath == "PosixPath('exp/run')"

\* dump_json(recursive_class_to_str(config), ...): what the file holds.
RECURSIVE ToJson(_)
ToJson(d) ==
    IF d = <<>> THEN <<>>
    ELSE <<Item(d[1].k,
                IF d[1].v.dict THEN Node(ToJson(d[1].v.v))
                ELSE Leaf(IF d[1].v.v = StoragePath THEN StorageDir
                          ELSE d[1].v.v))>>
         \o ToJson(Tail(d))

\* config = dict() with trainer_opts, whose kwargs get the storage_dir, and
\* provider_opts.
RunConfig(trainer_opts, provider_opts) ==
    <<Item("trainer_opts",
           Node(Put(trainer_opts, "kwargs",
                    Node(Put(Get(trainer_opts, "kwargs", Node(<<>>)).v,
                             "storage_dir", Leaf(StoragePath)))))),
      Item("provider_opts", Node(provider_opts))>>

\* How initialize_trainer_provider ends: the exception raised or 'ok', the
\* calls it made in their order, the warnings given, and the files of the
\* storage directory after it.
Ended(outcome, steps, warnings, files) ==
    [outcome |-> outcome, value |-> warnings, steps |-> steps,
     files |-> files]

\* initialize_trainer_provider without the assertion that follows
\* print_config.
initialize_trainer_provider_ungated(task, observers, files, trainer_opts, provider_opts) ==
    LET current == RunConfig(trainer_opts, provider_opts)
        built == <<"print_config", "Trainer.from_config",
                   "config_to_instance">>
    IN IF observers # 1
       THEN Ended("AssertionError", <<>>, <<>>, files)
       ELSE IF Has(files, "init.json")
       THEN LET c == compare_configs(Get(files, "init.json", <<>>), current)
            IN IF c.outcome # "ok"
               THEN Ended(c.outcome, <<"compare_configs">>, <<>>, files)
               ELSE Ended("ok", <<"compare_configs">> \o built, c.value,
                          files)
       ELSE IF task \in {"train", "create_checkpoint"}
       THEN Ended("ok", <<"dump_json">> \o built, <<>>,
                  Put(files, "init.json", ToJson(current)))
       ELSE Ended("ValueError", <<>>, <<>>, files)

\* initialize_trainer_provider(task), called in a run with `observers`
\* observers, the first of a storage directory that holds `files`.
initialize_trainer_provider(task, observers, files, trainer_opts, provider_opts) ==
    LET current == RunConfig(trainer_opts, provider_opts)
        creating == task \in {"train", "create_checkpoint"}
        After(new, steps, warnings, after) ==
            IF new = ~creating
            THEN Ended("AssertionError", Append(steps, "print_config"),
                       warnings, after)
            ELSE Ended("ok",
                       steps \o <<"print_config", "Trainer.from_config",
                                  "config_to_instance">>,
                       warnings, after)
    IN IF observers # 1
       THEN Ended("AssertionError", <<>>, <<>>, files)
       ELSE IF Has(files, "init.json")
       THEN LET c == compare_configs(Get(files, "init.json", <<>>), current)
            IN IF c.outcome # "ok"
               THEN Ended(c.outcome, <<"compare_configs">>, <<>>, files)
               ELSE After(FALSE, <<"compare_configs">>, c.value, files)
       ELSE IF creating
       THEN After(TRUE, <<"dump_json">>, <<>>,
                  Put(files, "init.json", ToJson(current)))
       ELSE Ended("ValueError", <<>>, <<>>, files)

\* The options of a run: a class, and kwargs with or without a seed.
TrainerOpts ==
    {<<Item("cls", Leaf("Trainer")), Item("kwargs", Node(seed))>> :
        seed \in OptionalItem("seed", {"0", "1"})}
ProviderOpts == OptionalItem("cls", {"MaskProvider"})

\* A storage directory: empty, or with the init.json of an earlier run.
StorageDirFiles ==
    {<<>>} \cup {<<Item("init.json", ToJson(RunConfig(t, p)))>> :
                    t \in TrainerOpts, p \in ProviderOpts}

InitializeInputs ==
    [fn : {"initialize_trainer_provider"}, task : Tasks, observers : 0..2,
     files : StorageDirFiles, trainer_opts : TrainerOpts,
     provider_opts : ProviderOpts]

\* ---------------------------------------------- functions called directly

FunctionInputs ==
    PitInputs \cup DcInputs \cup CompareInputs \cup InitializeInputs

FunctionInit ==
    /\ config = HistConfig /\ InitHooks
    /\ pc = "call" /\ cursor = 1
    /\ input \in FunctionInputs
    /\ output = <<>>

Call_pit_mse_loss ==
    /\ pc = "call" /\ input.fn = "pit_mse_loss"
    /\ output' = pit_mse_loss(input.estimate, input.target)
    /\ pc' = "returned"
    /\ UNCHANGED <<config, trainer, summaryHook, validationHook, stopHook,
                   log, review, cursor, calls, ev, fed, alone, trace, input>>

Call_deep_clustering_loss ==
    /\ pc = "call" /\ input.fn = "deep_clustering_loss"
    /\ output' = deep_clustering_loss(input.x, input.t)
    /\ pc' = "returned"
    /\ UNCHANGED <<config, trainer, summaryHook, validationHook, stopHook,
                   log, review, cursor, calls, ev, fed, alone, trace, input>>

Call_compare_configs ==
    /\ pc = "call" /\ input.fn = "compare_configs"
    /\ output' = compare_configs(input.init_json, input.config)
    /\ pc' = "returned"
    /\ UNCHANGED <<config, trainer, summaryHook, validationHook, stopHook,
                   log, review, cursor, calls, ev, fed, alone, trace, input>>

Call_initialize_trainer_provider ==
    /\ pc = "call" /\ input.fn = "initialize_trainer_provider"
    /\ output' = initialize_trainer_provider(
                      input.task, input.observers, input.files,
                      input.trainer_opts, input.provider_opts)
    /\ pc' = "returned"
    /\ UNCHANGED <<config, trainer, summaryHook, validationHook, stopHook,
                   log, review, cursor, calls, ev, fed, alone, trace, input>>

FunctionNext ==
    \/ Call_pit_mse_loss
    \/ Call_deep_clustering_loss
    \/ Call_compare_configs
    \/ Call_initialize_trainer_provider

FunctionSpec == FunctionInit /\ [][FunctionNext]_vars

\* ------------------------------------------------------------- claims

\* The step is a call of `op` of `hook`.
Called(hook, op) ==
    calls' = calls + 1 /\ ev'.hook = hook /\ ev'.op = op

\* What the step appended to the log.
Written == SubSeq(log', Len(log) + 1, Len(log'))
AppendOnly == Len(log) <= Len(log') /\ SubSeq(log', 1, Len(log)) = log

\* An interval trigger of the SummaryHook fires at this pre_step: the one
\* built from the hook's trigger argument, or the one built from validate.
OwnFires ==
    IntervalTrigger_call(alone.own, trainer.iteration, trainer.epoch).fired
CompanionFires ==
    /\ config.validate # NoPair
    /\ IntervalTrigger_call(alone.companion, trainer.iteration,
                            trainer.epoch).fired

\* C1: a call of SummaryHook.pre_step calls dump_summary if and only if the
\* summary trigger fires, or the companion validate trigger (where the hook
\* has one) fires, or the trainer's iteration is 1; a call that does not,
\* writes nothing and leaves the accumulator and the timer as they were.
C1_FlushIffTriggeredOrFirst ==
    [][Called("summary", "pre_step") =>
         /\ ev'.flushed <=>
              (OwnFires \/ CompanionFires \/ trainer.iteration = 1)
         /\ ~ev'.flushed =>
              /\ log' = log
              /\ summaryHook'.summary = summaryHook.summary
              /\ trainer'.timer = trainer.timer]_vars

\* A pre_step at iteration 1 that flushed a loss although no trigger fired.
C1_Witness ==
    /\ ev.hook = "summary" /\ ev.op = "pre_step"
    /\ ev.flushed /\ ~ev.fired /\ ev.iteration = 1
    /\ \E i \in 1..Len(log) : log[i].step = 1 /\ log[i].tag[2] = "a"

\* The names of a dict, and the scalar entries written under one key.
Names(d) == {d[i].k : i \in 1..Len(d)}
Select(entries, prefix, name) ==
    SelectSeq(entries,
              LAMBDA e : e.kind = "scalar" /\ e.tag = <<prefix, name>>)
Values(entries) == [i \in 1..Len(entries) |-> entries[i].value]

\* The means a flush of `hook` owes for the name: that of the losses fed under
\* it, then that of the scalars fed under it.
Owed(f, name) ==
    (IF Has(f.losses, name)
     THEN <<Mean(Get(f.losses, name, <<>>))>> ELSE <<>>)
    \o (IF Has(f.scalars, name)
        THEN <<Mean(Get(f.scalars, name, <<>>))>> ELSE <<>>)

FlushWrites(f, prefix) ==
    /\ AppendOnly
    /\ \A e \in {Written[i] : i \in 1..Len(Written)} :
          e.step = trainer.iteration /\ e.tag[1] = prefix
    /\ \A name \in Names(f.losses) \cup Names(f.scalars) :
          Values(Select(Written, prefix, name)) = Owed(f, name)

\* C2 as stated: every loss name and every scalar name fed since the last
\* flush gets exactly one entry under '{prefix}/{name}'.
C2_OneEntryPerName ==
    [][(calls' = calls + 1 /\ ev'.hook = "summary" /\ ev'.flushed) =>
         /\ \A name \in Names(fed["summary"].losses)
                          \cup Names(fed["summary"].scalars) :
               LET es == Select(Written, "training", name)
               IN /\ Len(es) = 1
                  /\ es[1].step = trainer.iteration
                  /\ \E i \in 1..Len(Owed(fed["summary"], name)) :
                        es[1].value = Owed(fed["summary"], name)[i]
         /\ summaryHook'.summary = empty_summary_dict
         /\ trainer'.timer = EmptyTimer]_vars

\* C2, amended: a flush of the SummaryHook writes, at the trainer's iteration,
\* one entry '{prefix}/{name}' with the mean of the values fed since the last
\* flush for every loss name, and one for every scalar name (a name that is
\* both gets two entries under its key: the loss mean, then the scalar mean);
\* after it the accumulator is empty and the timer reset.
C2_FlushWritesMeans ==
    [][(calls' = calls + 1 /\ ev'.hook = "summary" /\ ev'.flushed) =>
         /\ FlushWrites(fed["summary"], "training")
         /\ summaryHook'.summary = empty_summary_dict
         /\ trainer'.timer = EmptyTimer]_vars

\* The instance: period 2, losses a = 1 and a = 3 fed at iterations 1 and 2,
\* pre_step at iteration 2 has written training/a = 2 at 2.
C2_Witness ==
    /\ config.summary_trigger = <<2, "iteration">>
    /\ ev.hook = "summary" /\ ev.op = "pre_step" /\ ev.flushed
    /\ ev.iteration = 2 /\ calls = 5
    /\ summaryHook.summary = empty_summary_dict
    /\ Values(Select(log, "training", "a")) = <<Ratio(2, 1)>>
    /\ log[1].step = 2

\* C3: a ValidationHook.pre_step whose trigger fires fails with an assertion
\* error, before trainer.validate is called and before anything is written,
\* if the timer holds a sample; otherwise it runs, and the timer holds no
\* sample after its flush.  A pre_step whose trigger does not fire leaves the
\* timer alone and passes.
C3_TimerEmptyAroundValidation ==
    [][Called("validation", "pre_step") =>
         IF ev'.fired
         THEN IF Len(trainer.timer) # 0
              THEN /\ ev'.outcome = "AssertionError"
                   /\ ev'.validated = 0
                   /\ log' = log
                   /\ trainer'.timer = trainer.timer
                   /\ validationHook'.summary = validationHook.summary
                   /\ pc' = "failed"
              ELSE /\ ev'.outcome = "ok"
                   /\ ev'.validated = 1
                   /\ Len(trainer'.timer) = 0
         ELSE /\ ev'.outcome = "ok"
              /\ trainer'.timer = trainer.timer]_vars

\* A validation that found samples in the timer: the run has failed.
C3_Witness ==
    /\ ev.hook = "validation" /\ ev.op = "pre_step" /\ ev.fired
    /\ ev.outcome = "AssertionError" /\ pc = "failed"
    /\ Len(trainer.timer) > 0

\* C4: with the SummaryHook built with validate = V and the ValidationHook
\* with trigger V, a pre_step of the ValidationHook whose trigger fires comes
\* right after a pre_step of the SummaryHook, at the same iteration, that
\* flushed; the timer is empty and the validation does not fail.
C4_SummaryFlushesBeforeValidation ==
    [][(Called("validation", "pre_step") /\ ev'.fired
          /\ config.validate = config.validation_trigger) =>
         /\ ev.hook = "summary" /\ ev.op = "pre_step" /\ ev.flushed
         /\ ev.iteration = trainer.iteration /\ ev.epoch = trainer.epoch
         /\ Len(trainer.timer) = 0
         /\ ev'.outcome = "ok"]_vars

\* A validation at iteration 3 that passed: the summary trigger (every 2
\* iterations) did not fire there, the companion did.
C4_Witness ==
    /\ config.validate = config.validation_trigger
    /\ config.summary_trigger = <<2, "iteration">>
    /\ ev.hook = "validation" /\ ev.op = "pre_step" /\ ev.fired
    /\ ev.iteration = 3 /\ ev.outcome = "ok" /\ ev.validated = 1

EndReached(pair, iteration, epoch) ==
    IF pair[2] = "iteration" THEN iteration >= pair[1] ELSE epoch >= pair[1]

\* C5: StopTrainingHook.pre_step raises StopTraining if and only if the
\* counter of the End trigger's unit has reached its maximum, and changes
\* nothing; with End(3, 'epoch') it passes at epochs 0, 1, 2 and raises at
\* every epoch >= 3, however often it is called.
C5_StopIffEndReached ==
    [][Called("stop", "pre_step") =>
         /\ ev'.outcome \in {"ok", "StopTraining"}
         /\ ev'.outcome = "StopTraining" <=>
              EndReached(config.max_trigger, trainer.iteration, trainer.epoch)
         /\ config.max_trigger = <<3, "epoch">> =>
              (ev'.outcome = "StopTraining" <=> trainer.epoch \notin {0, 1, 2})
         /\ UNCHANGED <<trainer, log, summaryHook, validationHook, review,
                        fed>>]_vars

\* StopTraining raised at an epoch >= 3, by one of two calls of hook methods
\* made in a run that reached that epoch in as many iterations.
C5_Witness ==
    /\ config.max_trigger = <<3, "epoch">>
    /\ ev.hook = "stop" /\ ev.op = "pre_step"
    /\ ev.outcome = "StopTraining" /\ ev.epoch >= 3
    /\ calls = ev.epoch + 2 /\ ev.iteration = ev.epoch

\* C6: the priorities are 50, 20 and 10; of two pre_step calls that follow
\* one another in a phase the later hook has the lower priority, and none
\* follows the StopTrainingHook's.
C6_DescendingPriority ==
    /\ SummaryHook_priority = 50
    /\ ValidationHook_priority = 20
    /\ StopTrainingHook_priority = 10
    /\ [][(calls' = calls + 1 /\ ev'.op = "pre_step" /\ ev.op = "pre_step") =>
            /\ priority(ev'.hook) < priority(ev.hook)
            /\ ev.hook # "stop"]_vars
    /\ [][(calls' = calls + 1 /\ ev'.op = "pre_step" /\ pc = "pre") =>
            (ev.op = "pre_step" <=> cursor > 1)]_vars

\* StopTraining raised in a phase in which the SummaryHook flushed and the
\* ValidationHook validated, in this order.
C6_Witness ==
    /\ ev.hook = "stop" /\ ev.outcome = "StopTraining" /\ pc = "close"
    /\ \E i, j \in 1..Len(log) :
          /\ i < j
          /\ log[i].tag[1] = "training" /\ log[i].step = trainer.iteration
          /\ log[j].tag[1] = "validation" /\ log[j].step = trainer.iteration
    /\ trainer.iteration >= 2

\* How many entries the accumulator of a hook holds.
Buffered(hook) ==
    Len(hook.summary.losses) + Len(hook.summary.scalars)
    + Len(hook.summary.histograms) + Len(hook.summary.audios)
    + Len(hook.summary.images)

\* C7: SummaryHook.close calls dump_summary whatever the trigger answers:
\* every entry of the accumulator and every series of the timer is written at
\* the trainer's iteration, the means being those of the values fed since the
\* last flush, and the accumulator and the timer are empty afterwards.  Once
\* the loop has closed its hooks, no hook holds a value fed to it.
C7_CloseFlushes ==
    /\ [][Called("summary", "close") =>
            /\ ev'.flushed
            /\ FlushWrites(fed["summary"], "training")
            /\ Len(Written) = Buffered(summaryHook) + Len(trainer.timer)
            /\ summaryHook'.summary = empty_summary_dict
            /\ trainer'.timer = EmptyTimer]_vars
    /\ [](pc = "done" =>
            /\ fed["summary"] = NoFeed /\ fed["validation"] = NoFeed
            /\ Buffered(summaryHook) = 0 /\ Buffered(validationHook) = 0)

\* The loop has ended, and close wrote a loss mean at an iteration where the
\* hook's trigger does not fire.
C7_Witness ==
    /\ pc = "done"
    /\ config.summary_trigger = <<1, "epoch">>
    /\ trainer.iteration = 2 /\ trainer.epoch = 0
    /\ \E i \in 2..Len(log) :
          /\ log[i].tag = <<"training", "a">> /\ log[i].step = 2
          /\ log[i - 1].step = 1

\* The values a review holds under a name.
ReviewValues(items, name) ==
    LET hits == SelectSeq(items, LAMBDA it : it.k = name)
    IN [i \in 1..Len(hits) |-> hits[i].v]

Appended(new, old, items) ==
    \A name \in Names(new) \cup Names(old) \cup Names(items) :
       Get(new, name, <<>>) = Get(old, name, <<>>) \o ReviewValues(items, name)

Concatenated(new, old, items) ==
    \A name \in Names(new) \cup Names(old) \cup Names(items) :
       Get(new, name, <<>>) =
          IF Has(items, name)
          THEN LastN(Get(old, name, <<>>) \o Get(items, name, <<>>), HistCap)
          ELSE Get(old, name, <<>>)

Snapshot(new, old, items) ==
    \A name \in Names(new) \cup Names(old) \cup Names(items) :
       Get(new, name, <<>>) = Get(items, name, Get(old, name, <<>>))

\* C8: SummaryHook.post_step appends the review's losses and scalars to the
\* accumulator's lists, its histograms to the buffers, and keeps its audios
\* and images, whatever the trigger would answer; it writes nothing, resets
\* neither the accumulator nor the timer, leaves the trigger as it was and
\* the review as handed in.
C8_PostStepOnlyAppends ==
    [][Called("summary", "post_step") =>
         /\ ev'.outcome = "ok"
         /\ Appended(summaryHook'.summary.losses, summaryHook.summary.losses,
                     review'.losses)
         /\ Appended(summaryHook'.summary.scalars,
                     summaryHook.summary.scalars, review'.scalars)
         /\ Concatenated(summaryHook'.summary.histograms,
                         summaryHook.summary.histograms, review'.histograms)
         /\ Snapshot(summaryHook'.summary.audios, summaryHook.summary.audios,
                     review'.audios)
         /\ Snapshot(summaryHook'.summary.images, summaryHook.summary.images,
                     review'.images)
         /\ log' = log
         /\ trainer' = trainer
         /\ summaryHook'.trigger = summaryHook.trigger
         /\ summaryHook'.writer = summaryHook.writer
         /\ review' = review
         /\ ~ev'.flushed]_vars

\* A post_step, made where the trigger would fire, that left two values of a
\* loss in the accumulator.
C8_Witness ==
    /\ ev.hook = "summary" /\ ev.op = "post_step" /\ ev.fired
    /\ Len(Get(summaryHook.summary.losses, "a", <<>>)) = 2
    /\ log # <<>>

ValidationPass ==
    /\ ev'.validated = 1
    /\ ev'.flushed
    /\ FlushWrites(FeedAll(fed["validation"], ev'.evaluation), "validation")
    /\ validationHook'.summary = empty_summary_dict

\* C9 as stated: whenever the trigger fires, trainer.validate is called once,
\* its reviews are folded in and flushed under 'validation'.
C9_ValidatesWheneverTriggered ==
    [][Called("validation", "pre_step") =>
         IF ev'.fired THEN ValidationPass
         ELSE ev'.validated = 0 /\ log' = log]_vars

\* C9, amended: when the trigger fires and the timer holds no sample,
\* trainer.validate is called once, every review it hands out is folded into
\* the accumulator, and the flush writes the means under 'validation' at the
\* trainer's iteration and leaves the accumulator empty; when it fires and
\* the timer holds a sample, the call fails and trainer.validate is not
\* called; when it does not fire, trainer.validate is not called.  Nothing
\* is written in the last two cases.
C9_ValidatesWhenTriggeredAndTimerEmpty ==
    [][Called("validation", "pre_step") =>
         IF ev'.fired /\ Len(trainer.timer) = 0 THEN ValidationPass
         ELSE /\ ev'.validated = 0 /\ log' = log
              /\ ev'.outcome = IF ev'.fired THEN "AssertionError" ELSE "ok"]_vars

\* A validation pass of two reviews, written at iteration 3.
C9_Witness ==
    /\ ev.hook = "validation" /\ ev.op = "pre_step" /\ ev.fired
    /\ ev.validated = 1 /\ Len(ev.evaluation) = 2 /\ ev.iteration = 3
    /\ log[Len(log)].tag[1] = "validation" /\ log[Len(log)].step = 3
    /\ validationHook.summary = empty_summary_dict

NeverRewinds(l) ==
    \A i, j \in 1..Len(l) : i < j => l[i].step <= l[j].step

\* C10: a call only appends to the log, every entry it appends bears the
\* trainer's iteration, and the stamps of the log never go down.
C10_LogAppendOnly ==
    [][/\ AppendOnly
       /\ \A i \in 1..Len(Written) : Written[i].step = trainer.iteration
       /\ NeverRewinds(log')]_vars

\* Two flushes at different iterations, the later of several entries.
C10_Witness ==
    /\ Len(log) >= 3
    /\ log[1].step < log[Len(log)].step
    /\ log[Len(log) - 1].step = log[Len(log)].step
    /\ ev.op = "close"

\* The series whose ratio to 'time_per_step' a flush derives.
RelSeries == {"time_per_data_loading", "time_per_train_step"}

\* A series of the timer that has another number of samples than
\* 'time_per_step'.
Mismatched(timer, key) ==
    /\ key \in RelSeries
    /\ Has(timer, key) /\ Has(timer, "time_per_step")
    /\ Len(Get(timer, key, <<>>)) # Len(Get(timer, "time_per_step", <<>>))

\* C11 as stated: a flush that finds 'time_per_data_loading' or
\* 'time_per_train_step' with another number of samples than 'time_per_step'
\* does not fail, prints the diagnostic, and writes for that series the mean
\* of its samples under the series' own name, and no ratio.
C11_FallsBackToRawMean ==
    [][(calls' = calls + 1 /\ ev'.flushed) =>
         \A key \in RelSeries :
            Mismatched(trainer.timer, key) =>
               /\ ev'.outcome = "ok"
               /\ ev'.warned
               /\ \E i \in 1..Len(Written) :
                     /\ Written[i].tag[2] = key
                     /\ Written[i].value = Mean(Get(trainer.timer, key, <<>>))
               /\ \A i \in 1..Len(Written) :
                     Written[i].tag[2] \notin
                        {"time_rel_data_loading", "time_rel_train_step"}]_vars

\* C12: after any sequence of update_summary calls the buffer held for a
\* name has at most 10,000 values, and they are the last (at most 10,000)
\* values, in arrival order, of all the histograms handed in under the name
\* since the accumulator was last emptied.
C12_HistogramKeepsLatest ==
    /\ Names(summaryHook.summary.histograms) = Names(fed["summary"].histograms)
    /\ \A name \in Names(fed["summary"].histograms) :
          LET held == Get(summaryHook.summary.histograms, name, <<>>)
              all == Get(fed["summary"].histograms, name, <<>>)
          IN /\ Len(held) <= 10000
             /\ Len(held) = IF Len(all) <= 10000 THEN Len(all) ELSE 10000
             /\ \A i \in 1..Len(held) :
                   held[i] = all[Len(all) - Len(held) + i]

\* Three histograms of 16,001 values in all came in under 'h': the buffer
\* holds 10,000 of them, the last one handed in being the last one held.
C12_Witness ==
    /\ Len(Get(fed["summary"].histograms, "h", <<>>)) = 16001
    /\ Len(Get(summaryHook.summary.histograms, "h", <<>>)) = 10000
    /\ Get(summaryHook.summary.histograms, "h", <<>>)[10000] = 6000
    /\ ev.op = "update_summary"

\* How often the trigger `name` fired in the calls made in epoch e.
Fires(name, e) ==
    Len(SelectSeq(trace, LAMBDA r : r.epoch = e /\ r.fired[name]))
EpochsSeen == {trace[i].epoch : i \in 1..Len(trace)}

FiresOncePerEpoch(name, pair) ==
    pair[2] = "epoch" =>
       \A e \in EpochsSeen :
          Fires(name, e) = IF e % pair[1] = 0 THEN 1 ELSE 0

\* C13: an interval trigger of p epochs, called at every iteration, has fired
\* exactly once in every epoch that is a multiple of p and never in another
\* epoch, however many calls fell into the epoch: the one a ValidationHook
\* holds alone, an instance on its own, and the one nested in the Or of the
\* SummaryHook, which is in the state of the one called alone and makes the
\* Or fire where that one fires.
C13_EpochIntervalFiresOnce ==
    /\ FiresOncePerEpoch("validation", config.validation_trigger)
    /\ FiresOncePerEpoch("own", config.summary_trigger)
    /\ FiresOncePerEpoch("companion", config.validate)
    /\ summaryHook.trigger.children[2] = validationHook.trigger
    /\ \A i \in 1..Len(trace) :
          trace[i].fired.summary <=>
             (trace[i].fired.own \/ trace[i].fired.validation)

\* Period 1: three iterations, called four times in all, fell into epoch 0
\* and two into epoch 1, and the trigger fired once in each; the summary
\* trigger of 3 iterations did not fire where epoch 1 began.
C13_Witness ==
    /\ config.validation_trigger = <<1, "epoch">>
    /\ config.summary_trigger = <<3, "iteration">>
    /\ Len(SelectSeq(trace, LAMBDA r : r.epoch = 0)) = 4
    /\ Len(SelectSeq(trace, LAMBDA r : r.epoch = 1)) = 2
    /\ Fires("validation", 0) = 1 /\ Fires("validation", 1) = 1
    /\ Fires("summary", 1) = 1
    /\ trainer.iteration = 4

FiresAtMultiples(name, pair) ==
    pair[2] = "iteration" =>
       \A i \in 1..Len(trace) :
          trace[i].fired[name] <=> (trace[i].iteration % pair[1] = 0)

\* C14: an interval trigger of p iterations fires in a call if and only if
\* the iteration of the call is a multiple of p, whatever the epoch and
\* whether or not it was called at that iteration before.
C14_IterationIntervalFiresAtMultiples ==
    /\ FiresAtMultiples("own", config.summary_trigger)
    /\ FiresAtMultiples("third", config.max_trigger)

\* Period 2, called twice at every iteration up to 4: it fired in both calls
\* at 2 and at 4, in neither call at 1 and 3, and the epochs went up meanwhile.
C14_Witness ==
    /\ config.summary_trigger = <<2, "iteration">>
    /\ Len(trace) = 10
    /\ \A i \in 1..Len(trace) :
          trace[i].fired.own <=> trace[i].iteration \in {0, 2, 4}
    /\ trace[4].iteration = 1 /\ trace[5].iteration = 2
    /\ trace[5].epoch < trace[9].epoch

\* The counter an end trigger built from the pair looks at.
Counter(pair, r) == IF pair[2] = "iteration" THEN r.iteration ELSE r.epoch

\* C15: an end trigger of maximum N answers false in every call made while
\* the counter of its unit is below N and true in every call made once the
\* counter is N or more; after a call in which it answered true, it answers
\* true in every later call.
C15_EndIsTerminal ==
    /\ \A i \in 1..Len(trace) :
          trace[i].fired.stop <=>
             Counter(config.max_trigger, trace[i]) >= config.max_trigger[1]
    /\ \A i, j \in 1..Len(trace) :
          (i < j /\ trace[i].fired.stop) => trace[j].fired.stop

\* Maximum 2 epochs: false in the calls of the epochs 0 and 1, true in both
\* calls made at the iteration where epoch 2 began and true in epoch 3.
C15_Witness ==
    /\ config.max_trigger = <<2, "epoch">>
    /\ Len(trace) >= 5
    /\ ~trace[1].fired.stop /\ trace[1].epoch = 0
    /\ \E i \in 2..(Len(trace) - 2) :
          /\ trace[i - 1].epoch = 1 /\ ~trace[i - 1].fired.stop
          /\ trace[i].epoch = 2 /\ trace[i].fired.stop
          /\ trace[i + 1].iteration = trace[i].iteration
          /\ trace[i + 1].fired.stop
    /\ trace[Len(trace)].epoch = 3 /\ trace[Len(trace)].fired.stop

\* C16: an Or answers true in a call if and only if one of its children does
\* at the same counters; it calls every child in every call, so that each
\* child is in the state of an instance of its own called at the same
\* counters; and the two ways of nesting three triggers answer alike.
C16_OrCallsEveryChild ==
    /\ \A i \in 1..Len(trace) :
          LET f == trace[i].fired
          IN /\ f.summary <=> (f.own \/ f.companion)
             /\ f.left <=> (f.own \/ f.companion \/ f.third)
             /\ f.right <=> (f.own \/ f.companion \/ f.third)
             /\ f.left <=> f.right
    /\ summaryHook.trigger.children = <<alone.own, alone.companion>>
    /\ alone.left.children[1].children = <<alone.own, alone.companion>>
    /\ alone.left.children[2] = alone.third
    /\ alone.right.children[1] = alone.own
    /\ alone.right.children[2].children = <<alone.companion, alone.third>>

\* Both children of the SummaryHook's Or are interval triggers of epochs, of
\* the periods 1 and 2: in a call at epoch 2 the first fired, so did the Or,
\* and the second is in the state of having been called there; at a later
\* iteration of the epoch no child fired and the third trigger alone made
\* both nestings fire.
C16_Witness ==
    /\ config.summary_trigger = <<1, "epoch">>
    /\ config.validate = <<2, "epoch">>
    /\ config.max_trigger = <<MaxPeriod, "iteration">>
    /\ \E i \in 1..Len(trace) :
          /\ trace[i].epoch = 2
          /\ trace[i].fired.own /\ trace[i].fired.companion
          /\ trace[i].fired.summary
    /\ summaryHook.trigger.children[2].last = 2
    /\ LET f == trace[Len(trace)].fired
       IN ~f.own /\ ~f.companion /\ f.third /\ f.left /\ f.right

\* The target with its sources 0 and 1 exchanged.
Exchanged(target) ==
    [t \in 1..Len(target) |-> <<target[t][2], target[t][1]>>]

\* C17: for tensors of one size with two sources pit_mse_loss returns the
\* smaller of the mean squared error against the target and the mean squared
\* error against the target with its two sources exchanged: 0 where the
\* estimate is the target, 0 where it is the exchanged target; for tensors
\* of different sizes it raises the assertion error and returns nothing.
C17_PitIsMinOverAssignments ==
    (pc = "returned" /\ input.fn = "pit_mse_loss") =>
       LET e == input.estimate
           g == input.target
       IN IF Size3(e) # Size3(g)
          THEN output.outcome = "AssertionError" /\ output.value = PyNone
          ELSE Len(g[1]) = 2 =>
                 /\ output.outcome = "ok"
                 /\ output.value \in {MseLoss(e, g), MseLoss(e, Exchanged(g))}
                 /\ \A c \in {MseLoss(e, g), MseLoss(e, Exchanged(g))} :
                       output.value.num * c.den <= c.num * output.value.den
                 /\ e = g => output.value = [num |-> 0, den |-> 1]
                 /\ e = Exchanged(g) => output.value = [num |-> 0, den |-> 1]

\* Two frames: the estimate is the target with its sources exchanged, not
\* the target, and the loss is 0.
C17_Witness ==
    /\ pc = "returned" /\ input.fn = "pit_mse_loss"
    /\ Size3(input.estimate) = <<2, 2, 1>>
    /\ input.estimate = Exchanged(input.target)
    /\ input.estimate # input.target
    /\ output = Returned([num |-> 0, den |-> 1])

\* The target mask with its two columns exchanged.
ColumnsExchanged(t) == [n \in 1..Len(t) |-> <<t[n][2], t[n][1]>>]

\* C18 as stated: for x of shape (N, E) and t of shape (N, K) the result of
\* deep_clustering_loss, times N squared, is the sum of the squared entries
\* of X^T X, minus twice that of X^T T, plus that of T^T T; and the result
\* is the same for t with its columns permuted.
C18_NormalizedByNSquared ==
    (pc = "returned" /\ input.fn = "deep_clustering_loss") =>
       LET x == input.x
           t == input.t
           N == Len(x)
       IN /\ output.outcome = "ok"
          /\ output.value * N * N =
                SumSq(Gram(x, x)) - 2 * SumSq(Gram(x, t)) + SumSq(Gram(t, t))
          /\ deep_clustering_loss(x, ColumnsExchanged(t)) = output

\* The flattened keys the persisted init and the current configuration have,
\* and the warnings of a kind that a call gave.
InitKeys == Names(Flatten(input.init_json, <<>>))
ConfigKeys == Names(Flatten(input.config, <<>>))
Warned(kind) == \E i \in 1..Len(output.value) : output.value[i].kind = kind

\* C19: compare_configs fails with an assertion error, and warns of nothing,
\* if a flattened key of the persisted init is not a flattened key of the
\* current configuration; otherwise it returns, having warned of changed
\* keys if and only if a key of the init has another value in the current
\* configuration, and of added keys if and only if the current configuration
\* has a key the init lacks, and of nothing else; the configuration and the
\* persisted file are what they were.
C19_CompareConfigs ==
    (pc = "returned" /\ input.fn = "compare_configs") =>
       /\ output.config = input.config
       /\ output.init_json = input.init_json
       /\ IF InitKeys \ ConfigKeys # {}
          THEN output.outcome = "AssertionError" /\ output.value = <<>>
          ELSE /\ output.outcome = "ok"
               /\ Warned("changed") <=>
                     \E key \in InitKeys :
                        Get(Flatten(input.init_json, <<>>), key, PyNone)
                        # Get(Flatten(input.config, <<>>), key, PyNone)
               /\ Warned("added") <=> (ConfigKeys \ InitKeys # {})
               /\ \A i \in 1..Len(output.value) :
                     output.value[i].kind \in {"changed", "added"}
               /\ Len(output.value) <= 2

\* The seed has changed and provider_opts.cls is new: both warnings, no
\* failure.
C19_Witness ==
    /\ pc = "returned" /\ input.fn = "compare_configs"
    /\ output.outcome = "ok"
    /\ output.value =
          <<[kind |-> "changed", keys |-> <<(<<"trainer_opts", "seed">>)>>],
            [kind |-> "added", keys |-> <<(<<"provider_opts", "cls">>)>>]>>
    /\ Len(Flatten(input.init_json, <<>>)) = 2

\* The writer of a hook (old before a step, new after it) is created at most
\* once, not while the hook's storage_dir is unset, and for the trainer's
\* storage location.
WriterCreatedOnceAndBound(old, new) ==
    /\ old.writer # NoWriter => new.writer = old.writer
    /\ (old.writer = NoWriter /\ new.writer # NoWriter) =>
          /\ old.storage_dir # PyNone
          /\ new.writer = trainer.storage_dir

\* C20 as stated: a hook's writer is created at most once, on first use,
\* for the trainer's storage location, and in no sequence of pre_step,
\* post_step and close calls while the hook's storage_dir is unset: a flush
\* that has entries to write before a post_step has set storage_dir fails,
\* creating no writer and writing nothing.
C20_WriterNeverBoundToUnset ==
    [][/\ WriterCreatedOnceAndBound(summaryHook, summaryHook')
       /\ WriterCreatedOnceAndBound(validationHook, validationHook')
       /\ (calls' = calls + 1 /\ ev'.hook = "summary" /\ ev'.flushed
             /\ summaryHook.storage_dir = PyNone
             /\ Buffered(summaryHook) + Len(trainer.timer) > 0) =>
            /\ ev'.outcome # "ok"
            /\ log' = log
            /\ summaryHook'.writer = NoWriter]_vars

\* The values the accumulator holds of a series are those handed in since the
\* last flush: each of them, once, in the order of arrival.
HoldsWhatWasFed(hook, f) ==
    /\ \A name \in Names(hook.summary.losses) \cup Names(f.losses) :
          Get(hook.summary.losses, name, <<>>) = Get(f.losses, name, <<>>)
    /\ \A name \in Names(hook.summary.scalars) \cup Names(f.scalars) :
          Get(hook.summary.scalars, name, <<>>) = Get(f.scalars, name, <<>>)

\* The scalar entries of the step for the series the accumulator holds: one
\* per series, its value the mean over all the values held.
WritesEachSeriesOnce(hook) ==
    LET held == hook.summary.losses \o hook.summary.scalars
        own == SelectSeq(Written,
                         LAMBDA e : /\ e.kind = "scalar"
                                    /\ e.tag[2] \in Names(held))
    IN /\ Len(own) = Len(held)
       /\ \A i \in 1..Len(held) :
             /\ own[i].tag = <<hook.summary_prefix, held[i].k>>
             /\ own[i].value.num * Len(held[i].v)
                   = SeqSum(held[i].v) * own[i].value.den

\* C21: over the interleavings of post_step, pre_step and close calls on a
\* SummaryHook, every loss and scalar value passed in by post_step is held,
\* once, until the first flush that follows; that flush writes one mean per
\* series over all the values held and leaves none behind, so that no value
\* enters a second flush; a call that does not flush writes nothing and
\* lets no value go.
C21_EachValueInExactlyOneFlush ==
    /\ [](HoldsWhatWasFed(summaryHook, fed["summary"]))
    /\ [][Called("summary", "post_step") =>
            /\ ev'.outcome = "ok"
            /\ fed'["summary"] = Feed(fed["summary"], review')
            /\ log' = log]_vars
    /\ [][(calls' = calls + 1 /\ ev'.flushed) =>
            /\ ev'.hook = "summary" /\ ev'.op \in {"pre_step", "close"}
            /\ AppendOnly
            /\ WritesEachSeriesOnce(summaryHook)
            /\ summaryHook'.summary.losses = <<>>
            /\ summaryHook'.summary.scalars = <<>>
            /\ fed'["summary"] = NoFeed]_vars
    /\ [][(calls' = calls + 1 /\ ~ev'.flushed /\ ev'.op # "post_step") =>
            /\ log' = log
            /\ summaryHook'.summary = summaryHook.summary
            /\ fed' = fed]_vars

\* Losses a = 1 and a = 3 passed in and flushed by close as their mean 2,
\* then a = 3 passed in and flushed by a second close, alone.
C21_Witness ==
    /\ ev.hook = "summary" /\ ev.op = "close" /\ calls = 5
    /\ Values(Select(log, "training", "a")) = <<Ratio(2, 1), Ratio(3, 1)>>
    /\ summaryHook.summary = empty_summary_dict

\* C22 as stated: what a ValidationHook writes under 'validation' comes from
\* the reviews of a validation pass alone: a post_step, which hands it the
\* review of a training step, leaves its accumulator as it was; a validation
\* fire writes the means over the reviews of its pass; and no other call of
\* the hook writes anything.
C22_ValidationFromValidationReviewsOnly ==
    [][(calls' = calls + 1 /\ ev'.hook = "validation") =>
         /\ ev'.op = "post_step" =>
               validationHook'.summary = validationHook.summary
         /\ ev'.validated = 1 =>
               FlushWrites(FeedAll(NoFeed, ev'.evaluation), "validation")
         /\ log' # log =>
               ev'.op = "pre_step" /\ ev'.fired /\ ev'.validated = 1]_vars

\* What a step does to the storage_dir of a hook (old before it, new after
\* it, posted: the step is a post_step of this hook).
StorageDirStep(old, new, posted) ==
    IF ~posted THEN new.storage_dir = old.storage_dir
    ELSE IF old.storage_dir = PyNone
    THEN /\ new.storage_dir = trainer.storage_dir
         /\ ev'.outcome = "ok"
         /\ Appended(new.summary.losses, old.summary.losses, review'.losses)
    ELSE /\ new.storage_dir = old.storage_dir
         /\ IF trainer.storage_dir = old.storage_dir
            THEN /\ ev'.outcome = "ok"
                 /\ Appended(new.summary.losses, old.summary.losses,
                             review'.losses)
            ELSE /\ ev'.outcome = "AssertionError"
                 /\ new.summary = old.summary
                 /\ log' = log

\* C23: the storage_dir of a hook is unset at construction, becomes the
\* trainer's storage_dir at the first post_step and never changes afterwards;
\* a later post_step made by a trainer that reports another storage_dir
\* fails an assertion and leaves the accumulator as it was.
C23_StorageDirSetOnceThenFixed ==
    /\ [](calls = 0 => /\ summaryHook.storage_dir = PyNone
                       /\ validationHook.storage_dir = PyNone)
    /\ [][/\ StorageDirStep(summaryHook, summaryHook',
                            Called("summary", "post_step"))
          /\ StorageDirStep(validationHook, validationHook',
                            Called("validation", "post_step"))]_vars

\* A post_step that failed: the hook holds the loss of its first post_step
\* and the storage_dir of that trainer, the trainer at hand reports another.
C23_Witness ==
    /\ ev.hook = "summary" /\ ev.op = "post_step"
    /\ ev.outcome = "AssertionError"
    /\ summaryHook.storage_dir = StorageDir
    /\ trainer.storage_dir = "exp/other"
    /\ Len(Get(summaryHook.summary.losses, "a", <<>>)) = 1
    /\ validationHook.storage_dir = StorageDir

\* Every key of the init.json found is a key of the run's configuration.
InitJsonKeysKept ==
    Names(Flatten(Get(input.files, "init.json", <<>>), <<>>))
       \subseteq Names(Flatten(RunConfig(input.trainer_opts,
                                         input.provider_opts), <<>>))

\* The call made is one of initialize_trainer_provider, and has ended.
Initialized ==
    pc = "returned" /\ input.fn = "initialize_trainer_provider"
StepsMade == {output.steps[i] : i \in 1..Len(output.steps)}

\* C24: initialize_trainer_provider writes init.json only where the
\* directory holds none and the task is 'train' or 'create_checkpoint', and
\* leaves an init.json it finds as it is; task 'train' on a directory that
\* holds init.json fails before a Trainer is built; any other task than
\* these two on a directory without init.json fails with ValueError, nothing
\* written; and on a directory with init.json compare_configs is called
\* first, so before a Trainer is built.  (A directory there is: the run has
\* its one observer.)
C24_TasksGatedByInitJson ==
    (Initialized /\ input.observers = 1) =>
       LET existed == Has(input.files, "init.json")
           creating == input.task \in {"train", "create_checkpoint"}
           built == "Trainer.from_config" \in StepsMade
       IN /\ ("dump_json" \in StepsMade \/ output.files # input.files) =>
                /\ ~existed /\ creating
                /\ output.steps[1] = "dump_json"
                /\ output.files = <<Item("init.json",
                                         ToJson(RunConfig(input.trainer_opts,
                                                input.provider_opts)))>>
          /\ existed => output.files = input.files
          /\ (existed /\ input.task = "train") =>
                output.outcome = "AssertionError" /\ ~built
          /\ (~existed /\ ~creating) =>
                /\ output.outcome = "ValueError"
                /\ output.steps = <<>>
                /\ output.files = input.files
          /\ existed => output.steps[1] = "compare_configs"
          /\ built <=> output.outcome = "ok"
          /\ output.outcome = "ok" <=>
                IF existed THEN ~creating /\ InitJsonKeysKept ELSE creating

\* 'train' in a directory that holds the init.json of an earlier run with
\* the same options: compare_configs passed, and the call failed before a
\* Trainer was built.
C24_Witness ==
    /\ Initialized /\ input.observers = 1 /\ input.task = "train"
    /\ input.files = <<Item("init.json",
                            ToJson(RunConfig(input.trainer_opts,
                                             input.provider_opts)))>>
    /\ output.outcome = "AssertionError"
    /\ output.steps = <<"compare_configs", "print_config">>
    /\ output.files = input.files

====
